---- MODULE Spec2Model ----
(***************************************************************************)
(* Chat-session lifecycle of MultiBot.                                     *)
(*                                                                         *)
(*   Spec         the Streamlit app (src/app.py), "Conversation" mode:     *)
(*                st.session_state, one action per script run.             *)
(*   ConsoleSpec  the console app (src/code/app.py), menu choice 2:        *)
(*                start_chat_conversation.                                 *)
(*                                                                         *)
(* The Gemini provider is the environment: client.chats.create and         *)
(* chat.send_message either return or raise, chosen nondeterministically.  *)
(* next_handle and send_log record what the provider was asked to do.      *)
(***************************************************************************)
EXTENDS Naturals, Sequences, FiniteSets, TLC

\* ---------------------------------------------------------------- bounds
MaxSessions == 3     \* chat sessions the provider hands out
MaxCalls == 3        \* send_message calls the provider receives

\* ---------------------------------------------------------------- values
None == 0                                  \* Python's None for a session handle
Whitespace == {" "}                        \* characters str.strip() removes

\* what the user can type: nothing, whitespace only, plain text, padded text
Messages == {<<>>, <<" ">>, <<"a">>, <<" ", "a", " ">>}

Replies == {"hello", "Error: boom"}        \* response.text of a successful send
Exceptions == {"boom"}                     \* str(e) of a raised exception
SendOutcomes ==
    [raised : {FALSE}, text : Replies] \cup [raised : {TRUE}, text : Exceptions]
CreateOutcomes == {"ok", "raise"}

\* str.strip(): drop leading and trailing whitespace
RECURSIVE lstrip(_)
lstrip(s) ==
    IF s # <<>> /\ Head(s) \in Whitespace THEN lstrip(Tail(s)) ELSE s

RECURSIVE rstrip(_)
rstrip(s) ==
    IF s # <<>> /\ s[Len(s)] \in Whitespace
    THEN rstrip(SubSeq(s, 1, Len(s) - 1)) ELSE s

strip(s) == rstrip(lstrip(s))

\* truthiness of a Python str: the empty string is falsy
Truthy(s) == s # <<>>

\* str.lower() on the letters the console's exit words use
LowerChar(c) ==
    CASE c = "E" -> "e" [] c = "X" -> "x" [] c = "I" -> "i"
      [] c = "T" -> "t" [] c = "Q" -> "q" [] c = "U" -> "u"
      [] OTHER -> c

lower(s) == [i \in 1..Len(s) |-> LowerChar(s[i])]

ExitWords == {<<"e", "x", "i", "t">>, <<"q", "u", "i", "t">>}

\* lines the console user can type at "You: "
ConsoleInputs ==
    Messages \cup ExitWords \cup {<<"E", "X", "I", "T">>, <<"Q", "u", "i", "t">>}

\* ---------------------------------------------------------------- state
VARIABLES
    keys,                \* keys present in st.session_state
    chat_history,        \* st.session_state.chat_history
    chat_session,        \* st.session_state.chat_session
    chat_message_input,  \* st.session_state.chat_message_input
    pc,                  \* what the last script run left on the page
    chat,                \* console: local `chat` of start_chat_conversation
    con_pc,              \* console: "menu", "loop" or "exited"
    next_handle,         \* provider: sessions created so far + 1
    send_log,            \* provider: every send_message call received
    last                 \* provider interaction of the last step

st_vars == <<keys, chat_history, chat_session, chat_message_input, pc>>
con_vars == <<chat, con_pc>>
vars == <<keys, chat_history, chat_session, chat_message_input, pc,
          chat, con_pc, next_handle, send_log, last>>

NoEvent ==
    [handler |-> "none", create |-> "none", send |-> "none",
     session |-> None, message |-> <<>>, returned |-> ""]

Init ==
    /\ keys = {}
    /\ chat_history = <<>>
    /\ chat_session = None
    /\ chat_message_input = <<>>
    /\ pc = "start"
    /\ chat = None
    /\ con_pc = "menu"
    /\ next_handle = 1
    /\ send_log = <<>>
    /\ last = NoEvent

\* ------------------------------------------- Streamlit app: src/app.py
\* "if 'chat_history' not in st.session_state": both keys are set together
InitKeys(k) == k \cup {"chat_history", "chat_session", "chat_message_input"}

InitHistory(k, h) == IF "chat_history" \in k THEN h ELSE <<>>

InitSession(k, s) == IF "chat_history" \in k THEN s ELSE None

InitInput(k, i) == IF "chat_message_input" \in k THEN i ELSE <<>>

\* variant: a session is requested on every run, active session or not
CreateRequested_Always(sess) == TRUE

\* "if st.session_state.chat_session is None": the provider is asked at all
CreateRequested(sess) == sess = None

\* client.chats.create inside try/except: the handle stored afterwards
StartSession(sess, outcome, handle) ==
    IF CreateRequested(sess) /\ outcome = "ok" THEN handle ELSE sess

\* variant: the except branch reports the error but lets the run continue
Stopped_NoStop(sess, outcome) == FALSE

\* the except branch ends the script run with st.stop()
Stopped(sess, outcome) == CreateRequested(sess) /\ outcome = "raise"

\* the provider can hand out a new session only while handles remain
CreatePossible(sess, outcome) ==
    (CreateRequested(sess) /\ outcome = "ok") => next_handle <= MaxSessions

CreateEvent(sess, outcome) == IF CreateRequested(sess) THEN outcome ELSE "none"

\* chat_response_streaming: the reply text, or the formatted error message
chat_response_streaming(r) ==
    IF r.raised THEN "Error: " \o r.text ELSE r.text

\* st.session_state.chat_history.append((user_message, response_text))
AppendTurn(h, user_message, response_text) ==
    Append(h, <<user_message, response_text>>)

\* "if user_message.strip():"
Accepted(user_message) == Truthy(strip(user_message))

\* variant: the sent text is left in the pending input
InputAfterSend_Keeps(user_message) == user_message

\* "st.session_state.chat_message_input = ''" after a dispatched send
InputAfterSend(user_message) == <<>>

\* the three chat entries of st.session_state
SessionState ==
    [chat_history |-> chat_history, chat_session |-> chat_session,
     chat_message_input |-> chat_message_input]

\* variant: the handler forgets to drop the session handle
ClearChatState_KeepsSession(s) ==
    [s EXCEPT !.chat_history = <<>>, !.chat_message_input = <<>>]

\* variant: the handler forgets to empty the transcript
ClearChatState_KeepsHistory(s) ==
    [s EXCEPT !.chat_session = None, !.chat_message_input = <<>>]

\* the three assignments of the "Clear Chat" handler
ClearChatState(s) ==
    [s EXCEPT !.chat_history = <<>>, !.chat_session = None,
              !.chat_message_input = <<>>]

\* A script run in Conversation mode with no button pressed: first load,
\* a widget change, or the run queued by st.rerun().
ScriptRun ==
    \E o \in CreateOutcomes :
        LET sess == InitSession(keys, chat_session) IN
        /\ CreatePossible(sess, o)
        /\ keys' = InitKeys(keys)
        /\ chat_history' = InitHistory(keys, chat_history)
        /\ chat_message_input' = InitInput(keys, chat_message_input)
        /\ chat_session' = StartSession(sess, o, next_handle)
        /\ next_handle' = IF chat_session' # sess THEN next_handle + 1
                          ELSE next_handle
        /\ pc' = IF Stopped(sess, o) THEN "stopped" ELSE "ready"
        /\ last' = [NoEvent EXCEPT !.handler = "run",
                                   !.create = CreateEvent(sess, o),
                                   !.session = chat_session']
        /\ UNCHANGED <<send_log, chat, con_pc>>

\* The script run triggered by the "Send Message" button.
SendMessage ==
    \E user_message \in Messages, o \in CreateOutcomes, r \in SendOutcomes :
        LET sess == InitSession(keys, chat_session)
            hist == InitHistory(keys, chat_history)
            sess2 == StartSession(sess, o, next_handle)
            response_text == chat_response_streaming(r)
        IN
        /\ pc = "ready"
        /\ CreatePossible(sess, o)
        /\ keys' = InitKeys(keys)
        /\ chat_session' = sess2
        /\ next_handle' = IF sess2 # sess THEN next_handle + 1 ELSE next_handle
        /\ IF Stopped(sess, o)
           THEN /\ pc' = "stopped"
                /\ chat_history' = hist
                /\ chat_message_input' = InitInput(keys, chat_message_input)
                /\ last' = [NoEvent EXCEPT !.handler = "run",
                                           !.create = CreateEvent(sess, o)]
                /\ UNCHANGED send_log
           ELSE IF Accepted(user_message)
           THEN /\ Len(send_log) < MaxCalls
                /\ send_log' = Append(send_log,
                       [session |-> sess2, message |-> user_message,
                        raised |-> r.raised, text |-> r.text])
                /\ chat_history' = AppendTurn(hist, user_message, response_text)
                /\ chat_message_input' = InputAfterSend(user_message)
                /\ pc' = "rerun"
                /\ last' = [handler |-> "send",
                            create |-> CreateEvent(sess, o),
                            send |-> IF r.raised THEN "raise" ELSE "ok",
                            session |-> sess2, message |-> user_message,
                            returned |-> response_text]
           ELSE /\ pc' = "ready"
                /\ chat_history' = hist
                /\ chat_message_input' = InitInput(keys, chat_message_input)
                /\ last' = [NoEvent EXCEPT !.handler = "send",
                                           !.create = CreateEvent(sess, o),
                                           !.send = "rejected",
                                           !.session = sess2,
                                           !.message = user_message]
                /\ UNCHANGED send_log
        /\ UNCHANGED <<chat, con_pc>>

\* The script run triggered by the "Clear Chat" button.
ClearChat ==
    \E o \in CreateOutcomes :
        LET sess == InitSession(keys, chat_session) IN
        /\ pc = "ready"
        /\ CreatePossible(sess, o)
        /\ keys' = InitKeys(keys)
        /\ next_handle' = IF StartSession(sess, o, next_handle) # sess
                          THEN next_handle + 1 ELSE next_handle
        /\ IF Stopped(sess, o)
           THEN /\ pc' = "stopped"
                /\ chat_history' = InitHistory(keys, chat_history)
                /\ chat_session' = sess
                /\ chat_message_input' = InitInput(keys, chat_message_input)
                /\ last' = [NoEvent EXCEPT !.handler = "run",
                                           !.create = CreateEvent(sess, o)]
           ELSE /\ chat_history' = ClearChatState(SessionState).chat_history
                /\ chat_session' = ClearChatState(SessionState).chat_session
                /\ chat_message_input' =
                       ClearChatState(SessionState).chat_message_input
                /\ pc' = "rerun"
                /\ last' = [NoEvent EXCEPT !.handler = "clear",
                                           !.create = CreateEvent(sess, o)]
        /\ UNCHANGED <<send_log, chat, con_pc>>

\* A script run with "Text Chat" or "Image Analysis" selected in the sidebar:
\* neither branch reads or writes the chat keys of st.session_state.
RunOtherMode ==
    /\ pc \in {"start", "stopped", "ready"}
    /\ pc' = "other"
    /\ last' = [NoEvent EXCEPT !.handler = "other"]
    /\ UNCHANGED <<keys, chat_history, chat_session, chat_message_input,
                   send_log, next_handle, chat, con_pc>>

Next == ScriptRun \/ SendMessage \/ ClearChat \/ RunOtherMode

Spec == Init /\ [][Next]_vars

\* ------------------------------------- console app: src/code/app.py
\* "if user_input.lower() in ['exit', 'quit']"
IsExit(user_input) == lower(user_input) \in ExitWords

\* Menu choice 2 up to the first prompt: client.chats.create inside the try
\* that wraps the whole conversation.
StartChat ==
    \E o \in CreateOutcomes :
        /\ con_pc = "menu"
        /\ o = "ok" => next_handle <= MaxSessions
        /\ IF o = "ok"
           THEN /\ chat' = next_handle
                /\ next_handle' = next_handle + 1
                /\ con_pc' = "loop"
           ELSE /\ chat' = None
                /\ con_pc' = "menu"
                /\ UNCHANGED next_handle
        /\ last' = [NoEvent EXCEPT !.handler = "start", !.create = o,
                                   !.session = chat']
        /\ UNCHANGED <<send_log, keys, chat_history, chat_session,
                       chat_message_input, pc>>

\* One iteration of "while True": read a line, leave on an exit word,
\* otherwise send it; an exception leaves the loop through the outer except.
ChatTurn ==
    \E user_input \in ConsoleInputs, r \in SendOutcomes :
        /\ con_pc = "loop"
        /\ IF IsExit(user_input)
           THEN /\ con_pc' = "menu"
                /\ chat' = None
                /\ last' = [NoEvent EXCEPT !.handler = "exit",
                                           !.session = chat,
                                           !.message = user_input]
                /\ UNCHANGED send_log
           ELSE /\ Len(send_log) < MaxCalls
                /\ send_log' = Append(send_log,
                       [session |-> chat, message |-> user_input,
                        raised |-> r.raised, text |-> r.text])
                /\ con_pc' = IF r.raised THEN "menu" ELSE "loop"
                /\ chat' = IF r.raised THEN None ELSE chat
                /\ last' = [handler |-> "send", create |-> "none",
                            send |-> IF r.raised THEN "raise" ELSE "ok",
                            session |-> chat, message |-> user_input,
                            returned |-> r.text]
        /\ UNCHANGED <<next_handle, keys, chat_history, chat_session,
                       chat_message_input, pc>>

\* Menu choice 4.
ExitApp ==
    /\ con_pc = "menu"
    /\ con_pc' = "exited"
    /\ last' = [NoEvent EXCEPT !.handler = "quit"]
    /\ UNCHANGED <<chat, next_handle, send_log, keys, chat_history,
                   chat_session, chat_message_input, pc>>

ConsoleNext == StartChat \/ ChatTurn \/ ExitApp

ConsoleSpec == Init /\ [][ConsoleNext]_vars

\* ---------------------------------------------------------- properties
\* the calls the provider received on session h, in call order
SessionCalls(h) == SelectSeq(send_log, LAMBDA c : c.session = h)

\* the calls on session h for which the provider returned a reply
SuccessfulCalls(h) ==
    SelectSeq(send_log, LAMBDA c : c.session = h /\ ~c.raised)

SendRaised == last.handler = "send" /\ last.send = "raise"

\* C1: a "Send Message" run whose provider call raises leaves chat_history
\* with the same length and contents as before the run.
C1_FailedSendKeepsTranscript ==
    [][(last'.handler = "send" /\ last'.send = "raise")
          => chat_history' = chat_history]_vars

\* C2: within one session the transcript is exactly the (message, reply)
\* pairs of the calls the provider answered, in call order.
C2_TranscriptIsSuccessfulCalls ==
    chat_session # None =>
        LET ok == SuccessfulCalls(chat_session) IN
        /\ Len(chat_history) = Len(ok)
        /\ \A i \in 1..Len(ok) :
               chat_history[i] = <<ok[i].message, ok[i].text>>

\* C3: after a send whose provider call raised, the console chat loop still
\* holds the same session and is ready for the next message.
C3_ConsoleFailedSendKeepsSession ==
    SendRaised => (con_pc = "loop" /\ chat = last.session)

\* C4: no message that is empty or whitespace-only after trimming ever
\* reaches the provider's send.
C4_BlankNeverReachesProvider ==
    \A i \in 1..Len(send_log) : Truthy(strip(send_log[i].message))

C6_NoSendWithoutSession ==
    [][/\ last'.create = "raise" =>
              /\ chat_session' = None
              /\ chat_history' = chat_history
              /\ send_log' = send_log
       /\ send_log' # send_log =>
              /\ chat_session # None
              /\ chat_session' = chat_session
              /\ send_log'[Len(send_log')].session = chat_session]_vars

C6_Witness ==
    /\ pc = "stopped"
    /\ last.create = "raise"
    /\ chat_session = None
    /\ send_log # <<>>

\* C7: a session is requested only when none is active, the handle changes
\* only through a reset, every transcript entry is a call made on the current
\* session, and a newly created session starts with an empty transcript.
C7_OneSessionOwnTranscript ==
    [][/\ last'.create # "none" => chat_session = None
       /\ chat_session' # chat_session =>
              (chat_session = None \/ last'.handler = "clear")
       /\ last'.create = "ok" =>
              (chat_history' = <<>> /\ SessionCalls(chat_session') = <<>>)
       /\ chat_session' # None =>
              LET calls == SessionCalls(chat_session)' IN
              /\ Len(chat_history') = Len(calls)
              /\ \A i \in 1..Len(calls) :
                     chat_history'[i][1] = calls[i].message]_vars

C7_Witness ==
    /\ chat_session = 2
    /\ chat_history # <<>>
    /\ SessionCalls(1) # <<>>

\* C8: when the provider's send raises, what the send hands back is not a
\* possible reply string and is not recorded as the bot's reply.
C8_ErrorIsNotAReply ==
    SendRaised =>
        /\ last.returned \notin Replies
        /\ \/ chat_history = <<>>
           \/ chat_history[Len(chat_history)] # <<last.message, last.returned>>

\* C9: after a dispatched send (reply or error) and after "Clear Chat" the
\* pending input chat_message_input is the empty string.
C9_PendingInputCleared ==
    (last.handler = "clear" \/ (last.handler = "send" /\ last.send \in {"ok", "raise"}))
        => chat_message_input = <<>>

C9_Witness ==
    /\ SendRaised
    /\ pc = "rerun"
    /\ chat_message_input = <<>>

\* C10: whenever chat_session is None the transcript is empty, and no step
\* drops the session without emptying the transcript or the reverse.
C10_SessionAndTranscriptTogether ==
    [][/\ chat_session' = None => chat_history' = <<>>
       /\ (chat_session # None /\ chat_session' = None) => chat_history' = <<>>
       /\ (chat_history # <<>> /\ chat_history' = <<>>) => chat_session' = None]_vars

C10_Witness ==
    /\ chat_session = None
    /\ pc = "rerun"
    /\ \E i \in 1..Len(send_log) : send_log[i].raised

====
